---- MODULE Spec2Model ----
(***************************************************************************)
(* The dependency registry of riff (src/dependency_registry/mod.rs): the   *)
(* bootstrap load of the cached registry with its embedded fallback, the   *)
(* version gate, the detached refresh task, the RwLock around the current  *)
(* snapshot and the freshness query.                                       *)
(*                                                                         *)
(* A text is a sequence of one-character tokens.  " " is whitespace, "1"   *)
(* and "2" are a `version` field carrying that number, "a" and "b" are a   *)
(* `language` field carrying that table.                                   *)
(***************************************************************************)
EXTENDS Integers, Sequences, FiniteSets, TLC

MaxPad == 1
NumReaders == 2
ExpectedVersion == 1

VARIABLES
    fallback,        \* DEPENDENCY_REGISTRY_FALLBACK, fixed when the program is built
    cacheExists,     \* whether the cache file exists on disk
    cacheFile,       \* the content of the cache file (<<>> while it does not exist)
    phase,           \* "start": new() not called; "open": it returned Ok; "failed": it returned Err
    offline,         \* the argument of new()
    result,          \* what new() returned: its kind, and the version WrongVersion carries
    data,            \* the value inside Arc<RwLock<DependencyRegistryData>>
    refresh_handle,  \* "None" or "Some"
    pc,              \* the position of the spawned refresh task
    telemetry,       \* the header value the task built: "unset", "None" or "Some"
    content,         \* the body text the task received
    outcome,         \* how the refresh task ended
    rpc,             \* per reader: "idle", "waiting" (queued in read()) or "holding" (owns a guard)
    requests,        \* the requests sent, each recorded by the header it carried
    bootCache,       \* the cache file content when new() finished
    bootData,        \* the snapshot new() installed
    lock,            \* the RwLock's writer side: "free", or "write" while a write guard exists
    cmd              \* the run or shell command around the registry: its position and result

vars == <<fallback, cacheExists, cacheFile, phase, offline, result, data, refresh_handle,
          pc, telemetry, content, outcome, rpc, requests, bootCache, bootData, lock, cmd>>

Readers == 1..NumReaders

(***************************************************************************)
(* Texts                                                                   *)
(***************************************************************************)
Whitespace == {" "}
VersionTokens == {"1", "2"}
LanguageTokens == {"a", "b"}

Pad(n) == [i \in 1..n |-> " "]

Bodies ==
    { <<"1", "a">>, <<"1", "b">>, <<"b", "1">>, <<"1", " ", "b">>, <<"2", "a">>, <<"1">>, <<>> }

Paddings == { p \in (0..MaxPad) \X (0..MaxPad) : p[1] + p[2] <= MaxPad }

Texts == { Pad(p[1]) \o b \o Pad(p[2]) : p \in Paddings, b \in Bodies }

FallbackTexts == { <<"1", "a">>, <<"2", "b">> }

RECURSIVE TrimStart(_)
TrimStart(s) ==
    IF s = <<>> THEN s
    ELSE IF Head(s) \in Whitespace THEN TrimStart(Tail(s)) ELSE s

RECURSIVE TrimEnd(_)
TrimEnd(s) ==
    IF s = <<>> THEN s
    ELSE IF s[Len(s)] \in Whitespace THEN TrimEnd(SubSeq(s, 1, Len(s) - 1)) ELSE s

Trim(s) == TrimEnd(TrimStart(s))

RECURSIVE Fields(_)
Fields(s) ==
    IF s = <<>> THEN <<>>
    ELSE IF Head(s) \in Whitespace THEN Fields(Tail(s))
    ELSE <<Head(s)>> \o Fields(Tail(s))

VersionOf(tok) == IF tok = "1" THEN 1 ELSE 2

NoData == [version |-> 0, language |-> "none"]

ParseError == [ok |-> FALSE, value |-> NoData]

from_str(s) ==
    LET f == Fields(s) IN
    IF Len(f) # 2 THEN ParseError
    ELSE IF f[1] \in VersionTokens /\ f[2] \in LanguageTokens
         THEN [ok |-> TRUE, value |-> [version |-> VersionOf(f[1]), language |-> f[2]]]
    ELSE IF f[2] \in VersionTokens /\ f[1] \in LanguageTokens
         THEN [ok |-> TRUE, value |-> [version |-> VersionOf(f[2]), language |-> f[1]]]
    ELSE ParseError

(***************************************************************************)
(* new(): the bootstrap                                                    *)
(***************************************************************************)
\* the bug of testing trim().is_empty()
IsEmptyMut(s) == Trim(s) = <<>>

IsEmpty(s) == Len(s) = 0

\* the bug of never substituting the fallback
LoadedTextMut(cached, fb) == cached

\* the bug of an inverted is_empty() test
LoadedTextInverted(cached, fb) == IF IsEmpty(cached) THEN cached ELSE fb

LoadedText(cached, fb) == IF IsEmpty(cached) THEN fb ELSE cached

\* the bug of accepting every version from ExpectedVersion on
VersionOkMut(d) == d.version >= ExpectedVersion

VersionOk(d) == d.version = ExpectedVersion

\* the bug of spawning the task whatever the flag
SpawnsRefreshMut(off) == TRUE

SpawnsRefresh(off) == ~off

NoResult == [kind |-> "none", got |-> 0]

NewOutcome(cached, fb, off) ==
    LET parsed == from_str(LoadedText(cached, fb)) IN
    IF ~parsed.ok
    THEN [phase |-> "failed", result |-> [kind |-> "Json", got |-> 0],
          data |-> NoData, handle |-> "None", pc |-> "none"]
    ELSE IF ~VersionOk(parsed.value)
    THEN [phase |-> "failed", result |-> [kind |-> "WrongVersion", got |-> parsed.value.version],
          data |-> NoData, handle |-> "None", pc |-> "none"]
    ELSE IF SpawnsRefresh(off)
    THEN [phase |-> "open", result |-> [kind |-> "Ok", got |-> 0],
          data |-> parsed.value, handle |-> "Some", pc |-> "telemetry"]
    ELSE [phase |-> "open", result |-> [kind |-> "Ok", got |-> 0],
          data |-> parsed.value, handle |-> "None", pc |-> "none"]

\* no command has been started
NoCmd == [pc |-> "idle", kind |-> "none", offline |-> FALSE, spawned |-> FALSE,
          child |-> "none", status |-> [some |-> FALSE, code |-> 0],
          result |-> [kind |-> "none", code |-> [some |-> FALSE, code |-> 0]]]

TypeOK ==
    /\ fallback \in FallbackTexts
    /\ cacheExists \in BOOLEAN
    /\ phase \in {"start", "open", "failed"}
    /\ offline \in BOOLEAN
    /\ refresh_handle \in {"None", "Some"}
    /\ rpc \in [Readers -> {"idle", "waiting", "holding"}]

Init ==
    /\ fallback \in FallbackTexts
    /\ cacheExists \in BOOLEAN
    /\ cacheFile \in Texts
    /\ (~cacheExists => cacheFile = <<>>)
    /\ phase = "start"
    /\ offline = FALSE
    /\ result = NoResult
    /\ data = NoData
    /\ refresh_handle = "None"
    /\ pc = "none"
    /\ telemetry = "unset"
    /\ content = <<>>
    /\ outcome = "none"
    /\ rpc = [r \in Readers |-> "idle"]
    /\ requests = <<>>
    /\ bootCache = <<>>
    /\ bootData = NoData
    /\ lock = "free"
    /\ cmd = NoCmd

\* new() fails before the cache content is read: the XDG lookup, the open or the read.
NewIoError ==
    /\ phase = "start"
    /\ \E kind \in {"BaseDirectories", "Io"}, created \in BOOLEAN :
        /\ result' = [kind |-> kind, got |-> 0]
        /\ cacheExists' = (cacheExists \/ (kind = "Io" /\ created))
    /\ phase' = "failed"
    /\ bootCache' = cacheFile
    /\ UNCHANGED <<cmd, lock, fallback, cacheFile, offline, data, refresh_handle, pc, telemetry,
                   content, outcome, rpc, requests, bootData>>

New(off) ==
    /\ phase = "start"
    /\ LET o == NewOutcome(cacheFile, fallback, off) IN
        /\ phase' = o.phase
        /\ result' = o.result
        /\ data' = o.data
        /\ bootData' = o.data
        /\ refresh_handle' = o.handle
        /\ pc' = o.pc
    /\ offline' = off
    /\ cacheExists' = TRUE
    /\ bootCache' = cacheFile
    /\ UNCHANGED <<cmd, lock, fallback, cacheFile, telemetry, content, outcome, rpc, requests>>

(***************************************************************************)
(* The refresh task spawned by new()                                       *)
(***************************************************************************)
Finish(how) ==
    /\ pc' = "done"
    /\ outcome' = how

\* Telemetry::new().await.as_header_data().wrap_err(..)?
RefreshTelemetry ==
    /\ pc = "telemetry"
    /\ \E t \in {"Err", "None", "Some"} :
        IF t = "Err"
        THEN Finish("telemetry_err") /\ UNCHANGED telemetry
        ELSE pc' = "send" /\ telemetry' = t /\ UNCHANGED outcome
    /\ UNCHANGED <<cmd, lock, fallback, cacheExists, cacheFile, phase, offline, result, data,
                   refresh_handle, content, rpc, requests, bootCache, bootData>>

\* the bug of sending the request again when it failed
RefreshSendRetry ==
    /\ pc = "send"
    /\ requests' = Append(requests, telemetry)
    /\ \E ok \in BOOLEAN :
        pc' = IF ok THEN "text" ELSE "send"
    /\ UNCHANGED <<cmd, lock, fallback, cacheExists, cacheFile, phase, offline, result, data,
                   refresh_handle, telemetry, content, outcome, rpc, bootCache, bootData>>

\* req.send().await
RefreshSend ==
    /\ pc = "send"
    /\ requests' = Append(requests, telemetry)
    /\ \E ok \in BOOLEAN :
        IF ok THEN pc' = "text" /\ UNCHANGED outcome ELSE Finish("send_err")
    /\ UNCHANGED <<cmd, lock, fallback, cacheExists, cacheFile, phase, offline, result, data,
                   refresh_handle, telemetry, content, rpc, bootCache, bootData>>

\* res.text().await
RefreshText ==
    /\ pc = "text"
    /\ \/ \E c \in Texts : content' = c /\ pc' = "parse" /\ UNCHANGED outcome
       \/ Finish("text_err") /\ UNCHANGED content
    /\ UNCHANGED <<cmd, lock, fallback, cacheExists, cacheFile, phase, offline, result, data,
                   refresh_handle, telemetry, rpc, requests, bootCache, bootData>>

fresh_data == from_str(content).value

\* the bug of opening the cache file, truncating it, before the body is parsed
RefreshParseMut ==
    /\ pc = "parse"
    /\ cacheFile' = <<>>
    /\ IF from_str(content).ok
       THEN pc' = "write_lock" /\ UNCHANGED outcome
       ELSE Finish("parse_err")
    /\ UNCHANGED <<cmd, lock, fallback, cacheExists, phase, offline, result, data,
                   refresh_handle, telemetry, content, rpc, requests, bootCache, bootData>>

\* serde_json::from_str(&content)
RefreshParse ==
    /\ pc = "parse"
    /\ IF from_str(content).ok
       THEN pc' = "write_lock" /\ UNCHANGED outcome
       ELSE Finish("parse_err")
    /\ UNCHANGED <<cmd, lock, fallback, cacheExists, cacheFile, phase, offline, result, data,
                   refresh_handle, telemetry, content, rpc, requests, bootCache, bootData>>

(***************************************************************************)
(* The RwLock: any number of read guards or one write guard; a queued      *)
(* writer is served before the readers that arrive after it.               *)
(***************************************************************************)
WriterHolds == lock = "write"

WriterQueued == pc = "write_wait"

Holding == { r \in Readers : rpc[r] = "holding" }

\* the bug of a writer that does not wait for the read guards
CanWriteMut == TRUE

CanWrite == Holding = {}

\* the bug of a lock whose readers overtake the queued writer
CanReadMut == ~WriterHolds

\* the bug of a lock that admits one guard at a time, as a Mutex does
CanReadExclusive == ~WriterHolds /\ ~WriterQueued /\ Holding = {}

CanRead == ~WriterHolds /\ ~WriterQueued

\* data.write().await, first poll: the guard at once, or a place in the queue
RefreshWriteLock ==
    /\ pc = "write_lock"
    /\ pc' = IF CanWrite THEN "assign_version" ELSE "write_wait"
    /\ lock' = IF CanWrite THEN "write" ELSE "free"
    /\ UNCHANGED <<cmd, fallback, cacheExists, cacheFile, phase, offline, result, data,
                   refresh_handle, telemetry, content, outcome, rpc, requests,
                   bootCache, bootData>>

\* data.write().await, woken once the last read guard is dropped
RefreshWriteGranted ==
    /\ pc = "write_wait"
    /\ CanWrite
    /\ pc' = "assign_version"
    /\ lock' = "write"
    /\ UNCHANGED <<cmd, fallback, cacheExists, cacheFile, phase, offline, result, data,
                   refresh_handle, telemetry, content, outcome, rpc, requests,
                   bootCache, bootData>>

\* *guard = fresh_data, the first field
RefreshAssignVersion ==
    /\ pc = "assign_version"
    /\ data' = [data EXCEPT !.version = fresh_data.version]
    /\ pc' = "assign_language"
    /\ UNCHANGED <<cmd, lock, fallback, cacheExists, cacheFile, phase, offline, result,
                   refresh_handle, telemetry, content, outcome, rpc, requests,
                   bootCache, bootData>>

\* the bug of binding the write guard to a variable that lives to the end of the task
RefreshAssignKeepsGuard ==
    /\ pc = "assign_language"
    /\ data' = [data EXCEPT !.language = fresh_data.language]
    /\ pc' = "open_cache"
    /\ UNCHANGED <<cmd, lock, fallback, cacheExists, cacheFile, phase, offline, result,
                   refresh_handle, telemetry, content, outcome, rpc, requests,
                   bootCache, bootData>>

\* *guard = fresh_data, the second field; the guard is dropped with the statement
RefreshAssignLanguage ==
    /\ pc = "assign_language"
    /\ data' = [data EXCEPT !.language = fresh_data.language]
    /\ pc' = "open_cache"
    /\ lock' = "free"
    /\ UNCHANGED <<cmd, fallback, cacheExists, cacheFile, phase, offline, result,
                   refresh_handle, telemetry, content, outcome, rpc, requests,
                   bootCache, bootData>>

\* the bug of putting the old snapshot back when the cache file cannot be opened
RefreshOpenCacheRollsBack ==
    /\ pc = "open_cache"
    /\ \E ok \in BOOLEAN :
        IF ok
        THEN /\ cacheFile' = <<>>
             /\ cacheExists' = TRUE
             /\ pc' = "write_all"
             /\ UNCHANGED <<outcome, data>>
        ELSE Finish("open_err") /\ data' = bootData /\ UNCHANGED <<cacheFile, cacheExists>>
    /\ UNCHANGED <<cmd, lock, fallback, phase, offline, result, refresh_handle, telemetry,
                   content, rpc, requests, bootCache, bootData>>

\* OpenOptions::new().truncate(true).create(true).write(true).open(..)
RefreshOpenCache ==
    /\ pc = "open_cache"
    /\ \E ok \in BOOLEAN :
        IF ok
        THEN /\ cacheFile' = <<>>
             /\ cacheExists' = TRUE
             /\ pc' = "write_all"
             /\ UNCHANGED outcome
        ELSE Finish("open_err") /\ UNCHANGED <<cacheFile, cacheExists>>
    /\ UNCHANGED <<cmd, lock, fallback, phase, offline, result, data, refresh_handle, telemetry,
                   content, rpc, requests, bootCache, bootData>>

\* cached_registry_file.write_all(content.trim().as_bytes()): one write of the loop
RefreshWriteAll ==
    /\ pc = "write_all"
    /\ LET buf == Trim(content)
           done == Len(cacheFile)
       IN \/ \E n \in 1..(Len(buf) - done) :
                /\ cacheFile' = cacheFile \o SubSeq(buf, done + 1, done + n)
                /\ IF done + n = Len(buf)
                   THEN Finish("ok")
                   ELSE UNCHANGED <<pc, outcome>>
          \/ Finish("write_err") /\ UNCHANGED cacheFile
    /\ UNCHANGED <<cmd, lock, fallback, cacheExists, phase, offline, result, data, refresh_handle,
                   telemetry, content, rpc, requests, bootCache, bootData>>

Refresh ==
    \/ RefreshTelemetry
    \/ RefreshSend
    \/ RefreshText
    \/ RefreshParse
    \/ RefreshWriteLock
    \/ RefreshWriteGranted
    \/ RefreshAssignVersion
    \/ RefreshAssignLanguage
    \/ RefreshOpenCache
    \/ RefreshWriteAll

(***************************************************************************)
(* The consumers                                                           *)
(***************************************************************************)
\* the bug of a negated is_finished()
freshMut == IF refresh_handle = "Some" THEN pc # "done" ELSE FALSE

\* the bug of reporting a spawned task as a finished one
freshSpawned == refresh_handle = "Some"

\* fresh(): handle.is_finished() when a handle is held, false when offline
fresh == IF refresh_handle = "Some" THEN pc = "done" ELSE FALSE

\* the bug of handing out a copy taken when the store was built
language_viewMut == bootData.language

\* what the guard language() returns points at: &v.language
language_view == data.language

\* language(): self.data.read().await, first poll
Language(r) ==
    /\ phase = "open"
    /\ rpc[r] = "idle"
    /\ rpc' = [rpc EXCEPT ![r] = IF CanRead THEN "holding" ELSE "waiting"]
    /\ UNCHANGED <<cmd, lock, fallback, cacheExists, cacheFile, phase, offline, result, data,
                   refresh_handle, pc, telemetry, content, outcome, requests,
                   bootCache, bootData>>

\* language(): self.data.read().await, woken once the writer is gone
LanguageGranted(r) ==
    /\ rpc[r] = "waiting"
    /\ CanRead
    /\ rpc' = [rpc EXCEPT ![r] = "holding"]
    /\ UNCHANGED <<cmd, lock, fallback, cacheExists, cacheFile, phase, offline, result, data,
                   refresh_handle, pc, telemetry, content, outcome, requests,
                   bootCache, bootData>>

\* the caller drops the RwLockReadGuard
DropGuard(r) ==
    /\ rpc[r] = "holding"
    /\ rpc' = [rpc EXCEPT ![r] = "idle"]
    /\ UNCHANGED <<cmd, lock, fallback, cacheExists, cacheFile, phase, offline, result, data,
                   refresh_handle, pc, telemetry, content, outcome, requests,
                   bootCache, bootData>>

\* The process ends: the store and the detached task go with it, the cache file stays.
Exit ==
    /\ phase # "start"
    /\ phase' = "start"
    /\ offline' = FALSE
    /\ result' = NoResult
    /\ data' = NoData
    /\ refresh_handle' = "None"
    /\ pc' = "none"
    /\ telemetry' = "unset"
    /\ content' = <<>>
    /\ outcome' = "none"
    /\ rpc' = [r \in Readers |-> "idle"]
    /\ requests' = <<>>
    /\ bootCache' = <<>>
    /\ bootData' = NoData
    /\ lock' = "free"
    /\ UNCHANGED <<cmd, fallback, cacheExists, cacheFile>>

Run ==
    \/ NewIoError
    \/ \E off \in BOOLEAN : New(off)
    \/ Refresh
    \/ \E r \in Readers : Language(r)
    \/ \E r \in Readers : LanguageGranted(r)
    \/ \E r \in Readers : DropGuard(r)

Next ==
    \/ Run
    \/ Exit

Spec == Init /\ [][Next]_vars

\* One process lifetime, scheduled fairly: the runtime keeps polling the task, the
\* lock hands out the guards it can, and every reader drops its guard.
Fairness ==
    /\ WF_vars(Refresh)
    /\ \A r \in Readers : WF_vars(LanguageGranted(r))
    /\ \A r \in Readers : WF_vars(DropGuard(r))

LiveSpec == Init /\ [][Run]_vars /\ Fairness

(***************************************************************************)
(* The run and shell commands: generate the flake, which opens the         *)
(* registry, then spawn `nix develop` and return its exit status code.     *)
(***************************************************************************)
CmdKinds == {"run", "shell"}

\* ExitStatus::code() of the child: Some(n), or None when a signal ended it
ChildStatuses ==
    { [some |-> TRUE, code |-> 0], [some |-> TRUE, code |-> 6], [some |-> FALSE, code |-> 0] }

NoStatus == [some |-> FALSE, code |-> 0]

\* the bug of returning whether the child succeeded in place of its code
CmdReturnsSuccess(kind, status) ==
    [kind |-> kind,
     code |-> IF kind = "Ok" THEN [some |-> TRUE, code |-> 0] ELSE status]

CmdReturns(kind, status) == [kind |-> kind, code |-> status]

\* cmd() is called: generate_flake_from_project_dir(project_dir, offline, ..)
CmdStart(kind, off) ==
    /\ cmd.pc = "idle"
    /\ phase = "start"
    /\ cmd' = [cmd EXCEPT !.pc = "flake", !.kind = kind, !.offline = off]
    /\ UNCHANGED <<fallback, cacheExists, cacheFile, phase, offline, result, data,
                   refresh_handle, pc, telemetry, content, outcome, rpc, requests,
                   bootCache, bootData, lock>>

\* the flake generator opens the registry with the flag it was given
CmdOpenRegistry ==
    /\ cmd.pc = "flake"
    /\ New(cmd.offline) \/ NewIoError

\* the flake generator reads the registry through language()
CmdReadRegistry ==
    /\ cmd.pc = "flake"
    /\ \E r \in Readers : Language(r) \/ LanguageGranted(r) \/ DropGuard(r)

\* generate_flake_from_project_dir(..).await?
CmdFlakeDone ==
    /\ cmd.pc = "flake"
    /\ phase # "start"
    /\ \A r \in Readers : rpc[r] = "idle"
    /\ \E ok \in BOOLEAN :
        cmd' = IF ok /\ phase = "open"
               THEN [cmd EXCEPT !.pc = "spawn"]
               ELSE [cmd EXCEPT !.pc = "done", !.result = CmdReturns("FlakeErr", NoStatus)]
    /\ UNCHANGED <<fallback, cacheExists, cacheFile, phase, offline, result, data,
                   refresh_handle, pc, telemetry, content, outcome, rpc, requests,
                   bootCache, bootData, lock>>

\* nix_develop_command.spawn().wrap_err("Failed to spawn `nix develop`")?
CmdSpawn ==
    /\ cmd.pc = "spawn"
    /\ \E ok \in BOOLEAN :
        cmd' = IF ok
               THEN [cmd EXCEPT !.pc = "wait", !.spawned = TRUE, !.child = "running"]
               ELSE [cmd EXCEPT !.pc = "done", !.result = CmdReturns("SpawnErr", NoStatus)]
    /\ UNCHANGED <<fallback, cacheExists, cacheFile, phase, offline, result, data,
                   refresh_handle, pc, telemetry, content, outcome, rpc, requests,
                   bootCache, bootData, lock>>

\* .wait_with_output().await, then Ok(nix_develop_exit.status.code()) or exit(1)
CmdWait ==
    /\ cmd.pc = "wait"
    /\ \/ \E st \in ChildStatuses :
            cmd' = [cmd EXCEPT !.pc = "done", !.child = "exited", !.status = st,
                                  !.result = CmdReturns("Ok", st)]
       \/ cmd' = [cmd EXCEPT !.pc = "done", !.child = "lost",
                             !.result = CmdReturns("Exit1", NoStatus)]
    /\ UNCHANGED <<fallback, cacheExists, cacheFile, phase, offline, result, data,
                   refresh_handle, pc, telemetry, content, outcome, rpc, requests,
                   bootCache, bootData, lock>>

\* the detached refresh task, for as long as the command has not returned
CmdRefresh ==
    /\ cmd.pc \in {"flake", "spawn", "wait"}
    /\ Refresh

CmdNext ==
    \/ \E kind \in CmdKinds, off \in BOOLEAN : CmdStart(kind, off)
    \/ CmdOpenRegistry
    \/ CmdReadRegistry
    \/ CmdFlakeDone
    \/ CmdSpawn
    \/ CmdWait
    \/ CmdRefresh

CmdSpec == Init /\ [][CmdNext]_vars

(***************************************************************************)
(* Vocabulary of the properties                                            *)
(***************************************************************************)
TextRead == phase # "start" /\ result.kind \notin {"BaseDirectories", "Io"}

Loaded == IF bootCache = <<>> THEN fallback ELSE bootCache

NonBlank(s) == { i \in 1..Len(s) : s[i] \notin Whitespace }

VersionToken(v) == IF v = 1 THEN "1" ELSE IF v = 2 THEN "2" ELSE "?"

\* s is a serialized snapshot of version v and language table l
Describes(s, v, l) ==
    /\ Cardinality(NonBlank(s)) = 2
    /\ \E i, j \in NonBlank(s) : s[i] = VersionToken(v) /\ s[j] = l

Serialized(s) == \E v \in 1..2, l \in LanguageTokens : Describes(s, v, l)

\* t is s without its leading and trailing whitespace
TrimmedOf(t, s) ==
    /\ t = <<>> \/ (t[1] \notin Whitespace /\ t[Len(t)] \notin Whitespace)
    /\ \E l, r \in 0..Len(s) : s = Pad(l) \o t \o Pad(r)

BeforeInstall ==
    \/ pc \in {"none", "telemetry", "send", "text", "parse", "write_lock", "write_wait"}
    \/ outcome \in {"telemetry_err", "send_err", "text_err", "parse_err"}

Fetched == phase = "open" /\ pc \notin {"none", "telemetry", "send", "text"} /\ outcome # "text_err"
           /\ outcome # "send_err" /\ outcome # "telemetry_err"

FetchedValidNew ==
    /\ Fetched
    /\ \E l \in LanguageTokens : Describes(content, ExpectedVersion, l) /\ l # bootData.language

\* C1: in every state of a constructed store the current snapshot has
\* version == ExpectedVersion, a fetched payload of another version being rejected.
C1_VersionGate == phase = "open" => data.version = ExpectedVersion

\* C2: whatever the interleaving with the refresh task, a reader that owns a guard
\* sees one whole snapshot: the one new() installed or the complete fetched one.
C2_WholeSnapshot ==
    \A r \in Readers : rpc[r] = "holding" =>
        \/ data = bootData
        \/ \E v \in 1..2, l \in LanguageTokens :
              Describes(content, v, l) /\ data = [version |-> v, language |-> l]

C2_Witness ==
    \E r \in Readers : rpc[r] = "holding" /\ data # bootData /\ pc = "write_all"

\* C3: online, while the refresh has not got past parsing the body, and after it
\* failed at send, body read or parse, the snapshot and the cache file are those
\* new() left, and at most one request was sent.
C3_FailedRefreshChangesNothing ==
    (phase = "open" /\ ~offline /\
        (pc \in {"telemetry", "send", "text", "parse"}
            \/ outcome \in {"send_err", "text_err", "parse_err"}))
    => (data = bootData /\ cacheFile = bootCache /\ cacheExists /\ Len(requests) <= 1)

C3_Witness ==
    /\ pc = "done" /\ outcome = "parse_err" /\ content # <<>>
    /\ \E r \in Readers : rpc[r] = "holding"

\* C4 as stated: once the refresh that fetched a valid new snapshot has ended, the
\* readers get the new data, the cache file is the trimmed fetched text and
\* fresh() is true.
C4_Original ==
    (FetchedValidNew /\ pc = "done") =>
        (data = fresh_data /\ TrimmedOf(cacheFile, content) /\ fresh)

\* C4 amended: after a valid new snapshot was fetched, the refresh eventually ends
\* with the new data installed and fresh() true, and with the cache file equal to
\* the trimmed fetched text if the open and the write of the cache file succeeded.
C4_Amended ==
    FetchedValidNew ~>
        (/\ pc = "done" /\ fresh
         /\ \E l \in LanguageTokens :
               Describes(content, ExpectedVersion, l)
               /\ data = [version |-> ExpectedVersion, language |-> l]
         /\ (outcome \notin {"open_err", "write_err"} =>
                (outcome = "ok" /\ TrimmedOf(cacheFile, content))))

C4_Witness ==
    /\ FetchedValidNew /\ pc = "done" /\ outcome = "ok" /\ fresh
    /\ cacheFile # content /\ cacheFile # bootCache /\ data # bootData

\* C5: once new(offline = false) has succeeded the refresh task ends, whatever its
\* outcome, and from then on fresh() is true.
C5_EventuallyFresh ==
    /\ [](refresh_handle = "Some" /\ pc = "done" => fresh)
    /\ (phase = "open" /\ ~offline) ~> (pc = "done" /\ fresh)

C5_Witness == fresh /\ outcome = "telemetry_err"

\* C6: after new(offline = true) no task is spawned: fresh() is false, no request
\* is sent, and the snapshot and the cache file stay those new() left.
C6_OfflineNeverRefreshes ==
    (phase = "open" /\ offline) =>
        /\ ~fresh
        /\ refresh_handle = "None" /\ pc = "none" /\ outcome = "none"
        /\ requests = <<>>
        /\ data = bootData /\ cacheFile = bootCache

C6_Witness ==
    /\ phase = "open" /\ offline /\ bootCache # <<>>
    /\ \A r \in Readers : rpc[r] = "holding"

\* C7: when the text new() loaded, cache content or fallback, is a snapshot of a
\* version v other than ExpectedVersion, new() returns WrongVersion(v): no store,
\* no refresh task, no request, offline or not.
C7_WrongVersion ==
    \A v \in 1..2, l \in LanguageTokens :
        (TextRead /\ Describes(Loaded, v, l) /\ v # ExpectedVersion) =>
            /\ phase = "failed"
            /\ result = [kind |-> "WrongVersion", got |-> v]
            /\ data = NoData /\ refresh_handle = "None" /\ pc = "none"
            /\ requests = <<>>

C7_Witness ==
    /\ phase = "failed" /\ result.kind = "WrongVersion" /\ result.got = 2
    /\ bootCache # <<>> /\ ~offline

\* C8: on an absent or empty cache file new() ends as it would on a cache file
\* holding exactly the fallback: same result, same snapshot, same task spawned or not.
C8_EmptyCacheIsFallback ==
    (TextRead /\ bootCache = <<>>) =>
        LET o == NewOutcome(fallback, fallback, offline) IN
            /\ phase = o.phase /\ result = o.result /\ bootData = o.data
            /\ refresh_handle = o.handle
            /\ (pc = "none") = (o.pc = "none")
            /\ (BeforeInstall => data = o.data)

C8_Witness ==
    /\ TextRead /\ bootCache = <<>> /\ phase = "open" /\ ~offline /\ pc = "telemetry"
    /\ data.language = "a"

\* C9: a cache file holding non-empty text that is no snapshot makes new() fail
\* with the JSON error: no fallback, no store, no refresh task.
C9_MalformedCache ==
    (TextRead /\ bootCache # <<>> /\ ~Serialized(bootCache)) =>
        /\ phase = "failed" /\ result.kind = "Json"
        /\ data = NoData /\ refresh_handle = "None" /\ pc = "none" /\ requests = <<>>

C9_Witness ==
    /\ phase = "failed" /\ result.kind = "Json" /\ bootCache # <<>>
    /\ Describes(fallback, ExpectedVersion, "a")

\* C10: when the text new() loaded is a snapshot of version ExpectedVersion, new()
\* succeeds and, until the refresh installs another one, language() gives the
\* language table of that text.
C10_RoundTrip ==
    \A l \in LanguageTokens :
        (TextRead /\ Describes(Loaded, ExpectedVersion, l)) =>
            /\ phase = "open" /\ result.kind = "Ok"
            /\ (BeforeInstall => language_view = l)

C10_Witness ==
    /\ phase = "open" /\ Describes(bootCache, ExpectedVersion, "b") /\ bootCache # <<"1", "b">>
    /\ language_view = "b" /\ \E r \in Readers : rpc[r] = "holding"

Installed ==
    /\ phase = "open"
    /\ pc \in {"open_cache", "write_all"} \/ outcome \in {"open_err", "write_err", "ok"}

\* C11: a reader that owns a guard sees the snapshot new() installed as long as the
\* refresh has not installed its own, and the fetched one from the installation on;
\* once installed, the fetched snapshot stays for the life of the store.
C11_MonotonicReads ==
    /\ [](\A r \in Readers : rpc[r] = "holding" =>
            /\ BeforeInstall => language_view = bootData.language
            /\ Installed => \E v \in 1..2 :
                  Describes(content, v, language_view))
    /\ [][(Installed /\ phase' = "open") =>
            (Installed' /\ language_view' = language_view)]_vars

C11_Witness ==
    /\ Installed /\ outcome = "ok"
    /\ \A r \in Readers : rpc[r] = "holding"
    /\ language_view # bootData.language

\* C12: a failure to build the telemetry header does not end the refresh: a task
\* that has ended after such a failure has sent its request, without the header.
C12_TelemetryFailureStillRequests ==
    (phase = "open" /\ pc = "done" /\ outcome = "telemetry_err") =>
        (Len(requests) = 1 /\ requests[1] = "None")

\* C13 as stated: a language() call made while the task does not hold the write
\* guard gets its read guard at once, other readers holding guards or not.
C13_Original ==
    [][\A r \in Readers :
          (rpc[r] = "idle" /\ rpc'[r] # "idle" /\ lock # "write") => rpc'[r] = "holding"]_vars

\* C13 amended: a language() call made while the task neither holds the write guard
\* nor is queued for it gets its read guard at once; a call made while the task is
\* queued or writing waits, and every waiting call gets its guard in the end.
C13_Amended ==
    /\ [][\A r \in Readers :
            (rpc[r] = "idle" /\ rpc'[r] # "idle" /\ lock # "write" /\ pc # "write_wait")
                => rpc'[r] = "holding"]_vars
    /\ \A r \in Readers : (rpc[r] = "waiting") ~> (rpc[r] = "holding")

C13_Witness ==
    /\ pc = "write_wait" /\ lock = "free"
    /\ \E r, q \in Readers : rpc[r] = "waiting" /\ rpc[q] = "holding"

\* C14: a command that got its flake, spawned the child and awaited it returns the
\* child's exit status code, Some(n) for a child that exited with n; a command whose
\* flake generation failed returns that error with no child spawned; the registry
\* is opened with the command's offline flag.
C14_ReturnsChildCode ==
    /\ (cmd.pc # "idle" /\ TextRead) => offline = cmd.offline
    /\ (cmd.pc # "idle" /\ phase = "open") => (refresh_handle = "Some") = ~cmd.offline
    /\ (cmd.pc \in {"spawn", "wait"} \/ cmd.spawned) => phase = "open"
    /\ (cmd.pc = "done" /\ cmd.result.kind = "FlakeErr") => (~cmd.spawned /\ cmd.child = "none")
    /\ (cmd.pc = "done" /\ cmd.child = "exited") =>
          /\ cmd.spawned
          /\ cmd.result.kind = "Ok"
          /\ cmd.result.code = cmd.status
    /\ (cmd.pc = "done" /\ cmd.result.kind = "Ok") => cmd.child = "exited"

C14_Witness ==
    /\ cmd.pc = "done" /\ cmd.kind = "run" /\ cmd.offline
    /\ cmd.result = [kind |-> "Ok", code |-> [some |-> TRUE, code |-> 6]]

\* the order of the task's positions
Rank(p) ==
    CASE p = "none" -> 0
      [] p = "telemetry" -> 1
      [] p = "send" -> 2
      [] p = "text" -> 3
      [] p = "parse" -> 4
      [] p = "write_lock" -> 5
      [] p = "write_wait" -> 6
      [] p = "assign_version" -> 7
      [] p = "assign_language" -> 8
      [] p = "open_cache" -> 9
      [] p = "write_all" -> 10
      [] p = "done" -> 11

\* C15: in the life of a store the task never goes back: at most one request is
\* sent, the snapshot is written only in the one replacement and the cache file is
\* truncated once and written only in the one rewrite that follows.
C15_SingleAttempt ==
    /\ [](Len(requests) <= 1)
    /\ [][(phase = "open" /\ phase' = "open") =>
            /\ Rank(pc') >= Rank(pc)
            /\ requests' # requests => (pc = "send" /\ pc' # "send")
            /\ data' # data => (pc \in {"assign_version", "assign_language"} /\ pc' # pc)
            /\ cacheFile' # cacheFile => pc \in {"open_cache", "write_all"}
            /\ (pc = "open_cache" /\ pc' = "write_all") => cacheFile' = <<>>
            /\ (pc = "write_all" /\ cacheFile' # cacheFile) =>
                  (Len(cacheFile') > Len(cacheFile)
                   /\ SubSeq(cacheFile', 1, Len(cacheFile)) = cacheFile)]_vars

C15_Witness ==
    /\ pc = "done" /\ outcome = "ok" /\ Len(requests) = 1
    /\ data # bootData /\ cacheFile # bootCache /\ bootCache # <<>>

\* C16: the write guard exists only during the replacement: never while the task
\* builds telemetry, sends, reads or parses the body, opens or writes the cache
\* file; the body is fetched and parsed before the task asks for the lock.
C16_WriteGuardOnlyForReplacement ==
    /\ lock = "write" =>
          (pc \in {"assign_version", "assign_language"} /\ Holding = {})
    /\ pc \in {"none", "telemetry", "send", "text", "parse", "open_cache", "write_all", "done"}
          => lock = "free"
    /\ pc \in {"write_lock", "write_wait", "assign_version", "assign_language"}
          => (Serialized(content) /\ Len(requests) = 1 /\ cacheFile = bootCache)

C16_Witness ==
    /\ lock = "write" /\ pc = "assign_language"
    /\ \E r \in Readers : rpc[r] = "waiting"

\* C17: whenever the task has touched the cache file, or has ended at the open or
\* at the write of it, the snapshot is the fetched one; after such a failure the
\* task is over and neither the snapshot nor the cache file changes again.
C17_InstallBeforePersist ==
    /\ []((phase = "open" /\ (cacheFile # bootCache \/ pc = "write_all"
                                \/ outcome \in {"open_err", "write_err", "ok"}))
            => \E v \in 1..2, l \in LanguageTokens :
                  Describes(content, v, l) /\ data = [version |-> v, language |-> l])
    /\ [](outcome \in {"open_err", "write_err"} => pc = "done")
    /\ [][(outcome \in {"open_err", "write_err"} /\ phase' = "open")
            => UNCHANGED <<pc, outcome, data, cacheFile>>]_vars

C17_Witness ==
    /\ outcome = "write_err" /\ cacheFile # <<>> /\ cacheFile # bootCache
    /\ data # bootData /\ data = fresh_data

\* C18: when the process ends while the store is open, the cache file it leaves
\* is the one the run started from, an empty file, or the whole trimmed fetched
\* text; never a partial text.
C18_AbandonLeavesUsableCache ==
    [][(phase = "open" /\ phase' = "start")
         => (cacheFile \in {bootCache, <<>>} \/ TrimmedOf(cacheFile, content))]_vars

\* C19: once the store is open and the refresh task has run to its successful end,
\* the cache file is empty or a serialized snapshot of the expected version.
C19_CacheHoldsExpectedVersion ==
    (phase = "open" /\ pc = "done" /\ outcome = "ok")
        => (cacheFile = <<>>
              \/ \E l \in LanguageTokens : Describes(cacheFile, ExpectedVersion, l))

\* C20: fresh() is false at every position of a spawned task before its end, the
\* opening and the writing of the cache file included; when fresh() is true the
\* store is online and the task is over, and from then on, while the store stays
\* open, fresh() stays true and the snapshot and the cache file do not change.
C20_FreshOnlyAfterTermination ==
    /\ []((phase = "open" /\ refresh_handle = "Some"
             /\ pc \in {"telemetry", "send", "text", "parse", "write_lock", "write_wait",
                        "assign_version", "assign_language", "open_cache", "write_all"})
            => ~fresh)
    /\ [](fresh => (phase = "open" /\ ~offline /\ outcome # "none"))
    /\ [][(fresh /\ phase' = "open")
            => (fresh' /\ UNCHANGED <<data, cacheFile, cacheExists, requests>>)]_vars

C20_Witness ==
    /\ ~fresh /\ refresh_handle = "Some" /\ pc = "write_all"
    /\ data # bootData /\ cacheFile # bootCache /\ cacheFile # <<>>
====
